---- MODULE Spec2Model ----
(***************************************************************************)
(* combine_csv.py: combine_csv_to_excel_single_sheet().                    *)
(*                                                                         *)
(* All *.csv files of a directory are appended to ONE worksheet            *)
(* ("Combined_Data").  Each file contributes a section: a label row, the   *)
(* table header row, the data rows and a separator row; the variable       *)
(* startrow is the running write cursor.                                   *)
(*                                                                         *)
(* The environment (command line, directory listing, bytes of each file,   *)
(* success of opening and flushing the workbook) is nondeterministic.  The *)
(* content of a file is drawn when the file is read (line 52), which is    *)
(* when the program first sees it.                                         *)
(***************************************************************************)
EXTENDS Integers, Sequences, FiniteSets

MaxFiles == 3   \* most *.csv files glob.glob finds
MaxRows == 3    \* most data rows of one CSV file
MaxCols == 1    \* most columns of one CSV file

NotExited == 0 - 1   \* exitCode while the process is still running

VARIABLES
    argc,           \* len(sys.argv)
    dir,            \* what sys.argv[1] names on disk
    pc,             \* position in combine_csv_to_excel_single_sheet
    all_csv_files,  \* len(all_csv_files); the files are 1 .. all_csv_files
    writer,         \* "none" | "open" | "closed": the pd.ExcelWriter
    startrow,       \* the write cursor
    idx,            \* position of csv_file in all_csv_files (1-based)
    cur,            \* content of csv_file as found by the last read
    df,             \* the DataFrame bound to df
    current_row,    \* row of the next data row
    rec,            \* number of elements of data_rows iterated so far
    writes,         \* the worksheet.write calls so far, in call order
    attempts,       \* the pd.read_csv calls made for csv_file
    inputs,         \* per file already decided: skipped, or its shape
    printed,        \* the messages printed so far
    e,              \* the exception caught at line 102, "none" if none
    exitCode        \* process exit status, NotExited while running

vars == <<argc, dir, pc, all_csv_files, writer, startrow, idx, cur, df,
          current_row, rec, writes, attempts, inputs, printed, e, exitCode>>

-----------------------------------------------------------------------------
(* The environment.                                                        *)

Dirs ==
    [kind : {"dir"}, ncsv : 0..MaxFiles]
        \cup [kind : {"missing", "notdir"}, ncsv : {0}]

\* What a *.csv path can hold.  struct: "empty" = no header line at all
\* (zero bytes or blank lines only), "table" = a header line and nrows
\* records, "malformed" = the tokenizer rejects it, "unreadable" = open()
\* fails.  utf8: its bytes are valid UTF-8.  A file without a header line
\* has no byte >= 0x80 (such a byte is a field under Latin-1), so it is
\* valid UTF-8.  The values of a record are drawn when the record is
\* written (WriteRow, WriteRowFails), the first time the program looks at
\* them.
Tables ==
    [struct : {"table"}, utf8 : BOOLEAN, ncols : 1..MaxCols,
     nrows : 0..MaxRows]

Contents ==
    Tables
        \cup [struct : {"malformed"}, utf8 : BOOLEAN, ncols : {0},
              nrows : {0}]
        \cup [struct : {"empty", "unreadable"}, utf8 : {TRUE}, ncols : {0},
              nrows : {0}]

NoFile == [struct |-> "none", utf8 |-> TRUE, ncols |-> 0, nrows |-> 0]

NoDf == [ncols |-> 0, nrows |-> 0]

-----------------------------------------------------------------------------
(* Pure parts.                                                             *)

\* glob.glob(os.path.join(csv_directory, "*.csv")): the number of matches.
Glob(d) == IF d.kind = "dir" THEN d.ncsv ELSE 0

Outcome(res, c) ==
    [res |-> res,
     df |-> IF res = "df"
            THEN [ncols |-> c.ncols, nrows |-> c.nrows]
            ELSE NoDf]

\* pd.read_csv(csv_file, encoding=enc): the set of possible outcomes.  A file
\* that is both malformed and not UTF-8 fails with whichever defect the
\* reader meets first.
ReadCsv(c, enc) ==
    IF c.struct = "unreadable" THEN {Outcome("OSError", c)}
    ELSE IF c.struct = "empty" THEN {Outcome("EmptyDataError", c)}
    ELSE IF enc = "utf-8" /\ ~c.utf8
    THEN {Outcome("UnicodeDecodeError", c)}
            \cup (IF c.struct = "malformed"
                  THEN {Outcome("ParserError", c)} ELSE {})
    ELSE IF c.struct = "malformed" THEN {Outcome("ParserError", c)}
    ELSE {Outcome("df", c)}

\* One worksheet.write(row, col, ...) call; rec is the record a data cell
\* comes from (0 for the other kinds), file the csv_file it belongs to.
Cell(row, col, kind, file, r) ==
    [row |-> row, col |-> col, kind |-> kind, file |-> file, rec |-> r]

\* The cells of columns 0 .. n-1 of one row, in column order.
RowCells(row, n, kind, file, r) ==
    [c \in 1..n |-> Cell(row, c - 1, kind, file, r)]

StartRowInit == 0

DataStartRow(s) == s + 1

FirstDataRow(dsr) == dsr + 1

\* a slip: the table header row is not counted
NextStartRowNoHeader(dsr, d) == dsr + d.nrows

NextStartRow(dsr, d) == dsr + 1 + d.nrows

\* slips: the separator row is not skipped; one row too many is skipped;
\* the cursor restarts from the section's own height
AdvanceOntoSeparator(nsr) == nsr

AdvanceExtraBlankRow(nsr) == nsr + 2

AdvanceRelative(nsr) == nsr + 1 - startrow

AdvanceStartRow(nsr) == nsr + 1

-----------------------------------------------------------------------------
Init ==
    /\ argc \in {1, 2}
    /\ dir \in Dirs
    /\ pc = "main"
    /\ all_csv_files = 0
    /\ writer = "none"
    /\ startrow = 0
    /\ idx = 0
    /\ cur = NoFile
    /\ df = NoDf
    /\ current_row = 0
    /\ rec = 0
    /\ writes = <<>>
    /\ attempts = <<>>
    /\ inputs = <<>>
    /\ printed = <<>>
    /\ e = "none"
    /\ exitCode = NotExited

\* a slip: the handler of line 102 reports the error and returns normally
RaiseButReturn(exc) ==
    /\ e' = exc
    /\ writer' = IF writer = "open" THEN "closed" ELSE writer
    /\ printed' = Append(printed, "error")
    /\ exitCode' = 0
    /\ pc' = "returned"

\* An exception leaves the with block (the writer is closed on the way out)
\* and reaches the handler of line 102: message, sys.exit(1).
Raise(exc) ==
    /\ e' = exc
    /\ writer' = IF writer = "open" THEN "closed" ELSE writer
    /\ printed' = Append(printed, "error")
    /\ exitCode' = 1
    /\ pc' = "exited"

UsageError ==
    /\ pc = "main"
    /\ argc < 2
    /\ printed' = Append(printed, "usage")
    /\ exitCode' = 1
    /\ pc' = "exited"
    /\ UNCHANGED <<argc, dir, all_csv_files, writer, startrow, idx, cur, df,
                   current_row, rec, writes, attempts, inputs, e>>

\* a slip: the empty listing is not tested, the run goes on to the writer
NoCsvFilesFallsThrough ==
    /\ pc = "main"
    /\ argc >= 2
    /\ Glob(dir) = 0
    /\ all_csv_files' = Glob(dir)
    /\ printed' = Append(printed, "start")
    /\ pc' = "open"
    /\ UNCHANGED <<argc, dir, writer, startrow, idx, cur, df, current_row,
                   rec, writes, attempts, inputs, e, exitCode>>

NoCsvFiles ==
    /\ pc = "main"
    /\ argc >= 2
    /\ Glob(dir) = 0
    /\ all_csv_files' = Glob(dir)
    /\ printed' = Append(printed, "warning")
    /\ exitCode' = 0
    /\ pc' = "returned"
    /\ UNCHANGED <<argc, dir, writer, startrow, idx, cur, df, current_row,
                   rec, writes, attempts, inputs, e>>

StartCombine ==
    /\ pc = "main"
    /\ argc >= 2
    /\ Glob(dir) > 0
    /\ all_csv_files' = Glob(dir)
    /\ printed' = Append(printed, "start")
    /\ pc' = "open"
    /\ UNCHANGED <<argc, dir, writer, startrow, idx, cur, df, current_row,
                   rec, writes, attempts, inputs, e, exitCode>>

OpenWriter ==
    /\ pc = "open"
    /\ writer' = "open"
    /\ startrow' = StartRowInit
    /\ idx' = 1
    /\ pc' = "read"
    /\ UNCHANGED <<argc, dir, all_csv_files, cur, df, current_row, rec,
                   writes, attempts, inputs, printed, e, exitCode>>

OpenWriterFails ==
    /\ pc = "open"
    /\ Raise("OSError")
    /\ UNCHANGED <<argc, dir, all_csv_files, startrow, idx, cur, df,
                   current_row, rec, writes, attempts, inputs>>

\* line 52, the read returns a DataFrame
ReadUtf8 ==
    /\ pc = "read"
    /\ idx <= all_csv_files
    /\ \E c \in Contents : \E out \in ReadCsv(c, "utf-8") :
        /\ out.res = "df"
        /\ cur' = c
        /\ attempts' = <<[enc |-> "utf-8", res |-> out.res]>>
        /\ df' = out.df
        /\ inputs' = Append(inputs, [skipped |-> FALSE, ncols |-> out.df.ncols,
                                     nrows |-> out.df.nrows])
    /\ pc' = "label"
    /\ UNCHANGED <<argc, dir, all_csv_files, writer, startrow, idx,
                   current_row, rec, writes, printed, e, exitCode>>

\* a slip: no except clause for UnicodeDecodeError, the error propagates
DecodeErrorUncaught ==
    /\ pc = "read"
    /\ idx <= all_csv_files
    /\ \E c \in Contents : \E out \in ReadCsv(c, "utf-8") :
        /\ out.res = "UnicodeDecodeError"
        /\ cur' = c
        /\ attempts' = <<[enc |-> "utf-8", res |-> out.res]>>
        /\ Raise(out.res)
    /\ UNCHANGED <<argc, dir, all_csv_files, startrow, idx, df, current_row,
                   rec, writes, inputs>>

\* lines 52-53, the read raises UnicodeDecodeError
DecodeError ==
    /\ pc = "read"
    /\ idx <= all_csv_files
    /\ \E c \in Contents : \E out \in ReadCsv(c, "utf-8") :
        /\ out.res = "UnicodeDecodeError"
        /\ cur' = c
        /\ attempts' = <<[enc |-> "utf-8", res |-> out.res]>>
    /\ pc' = "retry"
    /\ UNCHANGED <<argc, dir, all_csv_files, writer, startrow, idx, df,
                   current_row, rec, writes, inputs, printed, e, exitCode>>

\* a slip: the label is written before the read, so a skipped file leaves
\* its label row behind
SkipEmptyAfterLabel ==
    /\ pc = "read"
    /\ idx <= all_csv_files
    /\ \E c \in Contents : \E out \in ReadCsv(c, "utf-8") :
        /\ out.res = "EmptyDataError"
        /\ cur' = c
        /\ attempts' = <<[enc |-> "utf-8", res |-> out.res]>>
    /\ inputs' = Append(inputs, [skipped |-> TRUE, ncols |-> 0, nrows |-> 0])
    /\ printed' = Append(printed, "skip")
    /\ writes' = Append(writes, Cell(startrow, 0, "label", idx, 0))
    /\ startrow' = startrow + 1
    /\ idx' = idx + 1
    /\ pc' = "read"
    /\ UNCHANGED <<argc, dir, all_csv_files, writer, df, current_row, rec,
                   e, exitCode>>

\* a slip: break instead of continue, the loop ends at the first empty file
SkipEmptyBreaks ==
    /\ pc = "read"
    /\ idx <= all_csv_files
    /\ \E c \in Contents : \E out \in ReadCsv(c, "utf-8") :
        /\ out.res = "EmptyDataError"
        /\ cur' = c
        /\ attempts' = <<[enc |-> "utf-8", res |-> out.res]>>
    /\ inputs' = Append(inputs, [skipped |-> TRUE, ncols |-> 0, nrows |-> 0])
    /\ printed' = Append(printed, "skip")
    /\ idx' = all_csv_files + 1
    /\ pc' = "read"
    /\ UNCHANGED <<argc, dir, all_csv_files, writer, startrow, df,
                   current_row, rec, writes, e, exitCode>>

\* lines 52, 56-58, the read raises EmptyDataError: message, continue
SkipEmpty ==
    /\ pc = "read"
    /\ idx <= all_csv_files
    /\ \E c \in Contents : \E out \in ReadCsv(c, "utf-8") :
        /\ out.res = "EmptyDataError"
        /\ cur' = c
        /\ attempts' = <<[enc |-> "utf-8", res |-> out.res]>>
    /\ inputs' = Append(inputs, [skipped |-> TRUE, ncols |-> 0, nrows |-> 0])
    /\ printed' = Append(printed, "skip")
    /\ idx' = idx + 1
    /\ pc' = "read"
    /\ UNCHANGED <<argc, dir, all_csv_files, writer, startrow, df,
                   current_row, rec, writes, e, exitCode>>

\* a slip: a bare except clause skips every unreadable file
ReadFailsSkipped ==
    /\ pc = "read"
    /\ idx <= all_csv_files
    /\ \E c \in Contents : \E out \in ReadCsv(c, "utf-8") :
        /\ out.res \notin {"df", "UnicodeDecodeError", "EmptyDataError"}
        /\ cur' = c
        /\ attempts' = <<[enc |-> "utf-8", res |-> out.res]>>
    /\ inputs' = Append(inputs, [skipped |-> TRUE, ncols |-> 0, nrows |-> 0])
    /\ printed' = Append(printed, "skip")
    /\ idx' = idx + 1
    /\ pc' = "read"
    /\ UNCHANGED <<argc, dir, all_csv_files, writer, startrow, df,
                   current_row, rec, writes, e, exitCode>>

\* line 52, the read raises anything else: no except clause of the inner try
\* matches
ReadFails ==
    /\ pc = "read"
    /\ idx <= all_csv_files
    /\ \E c \in Contents : \E out \in ReadCsv(c, "utf-8") :
        /\ out.res \notin {"df", "UnicodeDecodeError", "EmptyDataError"}
        /\ cur' = c
        /\ attempts' = <<[enc |-> "utf-8", res |-> out.res]>>
        /\ Raise(out.res)
    /\ UNCHANGED <<argc, dir, all_csv_files, startrow, idx, df, current_row,
                   rec, writes, inputs>>

\* line 55, the second read returns a DataFrame
RetryLatin1 ==
    /\ pc = "retry"
    /\ \E out \in ReadCsv(cur, "latin-1") :
        /\ out.res = "df"
        /\ attempts' = Append(attempts, [enc |-> "latin-1", res |-> out.res])
        /\ df' = out.df
        /\ inputs' = Append(inputs, [skipped |-> FALSE, ncols |-> out.df.ncols,
                                     nrows |-> out.df.nrows])
    /\ pc' = "label"
    /\ UNCHANGED <<argc, dir, all_csv_files, writer, startrow, idx, cur,
                   current_row, rec, writes, printed, e, exitCode>>

\* line 55, the second read raises: an exception raised inside an except
\* clause is not handled by its sibling clauses
RetryFails ==
    /\ pc = "retry"
    /\ \E out \in ReadCsv(cur, "latin-1") :
        /\ out.res # "df"
        /\ attempts' = Append(attempts, [enc |-> "latin-1", res |-> out.res])
        /\ Raise(out.res)
    /\ UNCHANGED <<argc, dir, all_csv_files, startrow, idx, cur, df,
                   current_row, rec, writes, inputs>>

\* line 63
WriteLabel ==
    /\ pc = "label"
    /\ writes' = Append(writes, Cell(startrow, 0, "label", idx, 0))
    /\ pc' = "header"
    /\ UNCHANGED <<argc, dir, all_csv_files, writer, startrow, idx, cur, df,
                   current_row, rec, attempts, inputs, printed, e, exitCode>>

\* lines 66-77
WriteHeader ==
    /\ pc = "header"
    /\ writes' = writes \o RowCells(DataStartRow(startrow), df.ncols,
                                    "header", idx, 0)
    /\ current_row' = FirstDataRow(DataStartRow(startrow))
    /\ rec' = 0
    /\ pc' = "rows"
    /\ UNCHANGED <<argc, dir, all_csv_files, writer, startrow, idx, cur, df,
                   attempts, inputs, printed, e, exitCode>>

\* lines 78-81, one row_data whose values are all writable
WriteRow ==
    /\ pc = "rows"
    /\ rec < df.nrows
    /\ writes' = writes \o RowCells(current_row, df.ncols, "data", idx, rec + 1)
    /\ current_row' = current_row + 1
    /\ rec' = rec + 1
    /\ UNCHANGED <<argc, dir, pc, all_csv_files, writer, startrow, idx, cur,
                   df, attempts, inputs, printed, e, exitCode>>

\* lines 78-80, a row_data whose value in column c parsed to a float
\* infinity: worksheet.write
\* raises TypeError there (xlsxwriter refuses NAN/INF numbers; fillna('')
\* replaces NaN only), after the cells of the columns before it.
WriteRowFails ==
    /\ pc = "rows"
    /\ rec < df.nrows
    /\ \E c \in 0..(df.ncols - 1) :
        writes' = writes \o RowCells(current_row, c, "data", idx, rec + 1)
    /\ Raise("TypeError")
    /\ UNCHANGED <<argc, dir, all_csv_files, startrow, idx, cur, df,
                   current_row, rec, attempts, inputs>>

\* lines 87-98
WriteSeparator ==
    /\ pc = "rows"
    /\ rec = df.nrows
    /\ LET next_startrow == NextStartRow(DataStartRow(startrow), df) IN
        /\ writes' = Append(writes,
                            Cell(next_startrow, 0, "separator", idx, 0))
        /\ startrow' = AdvanceStartRow(next_startrow)
    /\ printed' = Append(printed, "added")
    /\ idx' = idx + 1
    /\ pc' = "read"
    /\ UNCHANGED <<argc, dir, all_csv_files, writer, cur, df, current_row,
                   rec, attempts, inputs, e, exitCode>>

\* the for loop is exhausted; the with block closes the writer; line 100
Flush ==
    /\ pc = "read"
    /\ idx > all_csv_files
    /\ writer' = "closed"
    /\ printed' = Append(printed, "done")
    /\ exitCode' = 0
    /\ pc' = "returned"
    /\ UNCHANGED <<argc, dir, all_csv_files, startrow, idx, cur, df,
                   current_row, rec, writes, attempts, inputs, e>>

\* the for loop is exhausted; closing the writer raises
FlushFails ==
    /\ pc = "read"
    /\ idx > all_csv_files
    /\ Raise("FileCreateError")
    /\ UNCHANGED <<argc, dir, all_csv_files, startrow, idx, cur, df,
                   current_row, rec, writes, attempts, inputs>>

Next ==
    \/ UsageError
    \/ NoCsvFiles
    \/ StartCombine
    \/ OpenWriter
    \/ OpenWriterFails
    \/ ReadUtf8
    \/ DecodeError
    \/ SkipEmpty
    \/ ReadFails
    \/ RetryLatin1
    \/ RetryFails
    \/ WriteLabel
    \/ WriteHeader
    \/ WriteRow
    \/ WriteRowFails
    \/ WriteSeparator
    \/ Flush
    \/ FlushFails

Spec == Init /\ [][Next]_vars

-----------------------------------------------------------------------------
(* Reading the worksheet and the run.                                      *)

Terminated == pc \in {"returned", "exited"}

WritesOf(f) == { i \in DOMAIN writes : writes[i].file = f }

KindOf(f, k) == { i \in DOMAIN writes :
                    writes[i].file = f /\ writes[i].kind = k }

\* files whose read produced a DataFrame / whose iteration is over
NonSkipped == { f \in DOMAIN inputs : ~inputs[f].skipped }

Sectioned == { f \in NonSkipped : f < idx }

Labelled(f) == f # 0 /\ KindOf(f, "label") # {}

LabelRow(f) == writes[CHOOSE i \in KindOf(f, "label") : TRUE].row

Rows(f) == inputs[f].nrows

\* the k-th file from f on, in list order, that was not skipped (0 if none)
RECURSIVE NthFrom(_, _)
NthFrom(f, k) ==
    IF f > Len(inputs) THEN 0
    ELSE IF inputs[f].skipped THEN NthFrom(f + 1, k)
    ELSE IF k = 1 THEN f
    ELSE NthFrom(f + 1, k - 1)

Nth(k) == NthFrom(1, k)

\* the cells of file f as <<kind, record, column, row>>
CellsOf(f) ==
    { <<writes[i].kind, writes[i].rec, writes[i].col, writes[i].row>> :
        i \in WritesOf(f) }

\* a section of n columns and R records whose label is at row S
Section(n, S, R) ==
    {<<"label", 0, 0, S>>, <<"separator", 0, 0, S + 2 + R>>}
        \cup { <<"header", 0, c, S + 1>> : c \in 0..(n - 1) }
        \cup { <<"data", k, c, S + 1 + k>> : k \in 1..R, c \in 0..(n - 1) }

\* file f wrote exactly the cells of its section, each once
SectionAt(f, S, R) ==
    /\ CellsOf(f) = Section(inputs[f].ncols, S, R)
    /\ Cardinality(WritesOf(f)) = 2 + inputs[f].ncols * (R + 1)

\* the cursor once file f's section is complete: the value startrow holds
\* until the next section completes, and the label row of the next section
CursorAfter(f, c) ==
    LET g == NthFrom(f + 1, 1) IN
        /\ (g = 0 \/ g >= idx) => startrow = c
        /\ Labelled(g) => LabelRow(g) = c

\* C1: every non-skipped file whose section is complete, with its label at
\* row S and R >= 0 data rows, has its header at row S+1, its data rows at
\* exactly S+2 .. S+1+R in record order, its separator at row S+2+R, and
\* leaves the cursor (the next section's label row) at S+3+R.
C1_SectionLayout ==
    \A f \in Sectioned :
        /\ Labelled(f)
        /\ SectionAt(f, LabelRow(f), Rows(f))
        /\ CursorAfter(f, LabelRow(f) + 3 + Rows(f))

C1_Witness ==
    /\ Sectioned = {1, 2, 3}
    /\ inputs[1].nrows = 0
    /\ inputs[2].nrows = 2
    /\ KindOf(3, "separator") # {}


\* C2 as stated: three non-skipped files with R1, R2, R3 data rows have their
\* labels at rows 0, R1+4 and R1+R2+8; files with 2 and 3 data rows have
\* their labels at rows 0 and 7.
C2_AsStated ==
    LET f1 == Nth(1)
        f2 == Nth(2)
        f3 == Nth(3)
    IN  /\ Labelled(f1) => LabelRow(f1) = 0
        /\ Labelled(f2) => LabelRow(f2) = Rows(f1) + 4
        /\ Labelled(f3) => LabelRow(f3) = Rows(f1) + Rows(f2) + 8
        /\ (Labelled(f2) /\ Rows(f1) = 2 /\ Rows(f2) = 3) => LabelRow(f2) = 7

\* C2 (amended): three non-skipped files with R1, R2, R3 data rows have
\* their labels at rows 0, R1+3 and R1+R2+6; files with 2 and 3 data rows
\* have their labels at rows 0 and 5.
C2_LabelRows ==
    LET f1 == Nth(1)
        f2 == Nth(2)
        f3 == Nth(3)
    IN  /\ Labelled(f1) => LabelRow(f1) = 0
        /\ Labelled(f2) => LabelRow(f2) = Rows(f1) + 3
        /\ Labelled(f3) => LabelRow(f3) = Rows(f1) + Rows(f2) + 6
        /\ (Labelled(f2) /\ Rows(f1) = 2 /\ Rows(f2) = 3)
            => LabelRow(f1) = 0 /\ LabelRow(f2) = 5

C2_Witness ==
    /\ all_csv_files = 3
    /\ NonSkipped = {1, 2, 3}
    /\ Labelled(3)
    /\ Rows(1) = 2
    /\ Rows(2) = 3
    /\ LabelRow(3) = 11

RECURSIVE HeightBefore(_)
HeightBefore(f) ==
    IF f <= 1 THEN 0
    ELSE HeightBefore(f - 1)
            + (IF inputs[f - 1].skipped THEN 0 ELSE Rows(f - 1) + 3)

\* C3 as stated: a file with a header row and zero data rows contributes no
\* cell to the worksheet.
C3_AsStated ==
    \A f \in NonSkipped : Rows(f) = 0 => WritesOf(f) = {}

\* C3 (amended): a file without any header line (the read raises
\* EmptyDataError) contributes no cell, and every section lies where it
\* would lie without the skipped files; a file with a header row and zero
\* data rows is not excluded: it contributes its label, header and separator
\* rows.
C3_EmptyExcluded ==
    /\ \A i \in DOMAIN writes : writes[i].file \in NonSkipped
    /\ \A i \in DOMAIN writes :
        writes[i].kind = "label" => writes[i].row = HeightBefore(writes[i].file)
    /\ \A f \in Sectioned :
        Rows(f) = 0 => SectionAt(f, HeightBefore(f), 0)

C3_Witness ==
    /\ Sectioned = {1, 3}
    /\ inputs[2].skipped
    /\ Rows(1) = 0
    /\ Rows(3) = 2
    /\ LabelRow(3) = 3
    /\ startrow = 8

UnhandledRead == {"ParserError", "OSError"}

\* C4: a finished run has exit code 1 exactly when the directory argument is
\* missing or an exception reached the handler of line 102 (from opening
\* the writer, a read, a write or the final flush); every other finished
\* run, the one without CSV files included, has exit code 0; the errors
\* handled per file (decoding, empty data) do not reach the handler.
C4_ExitCode ==
    /\ Terminated =>
        /\ exitCode \in {0, 1}
        /\ exitCode = 1 <=> (argc < 2 \/ e # "none")
        /\ (pc = "exited") <=> (exitCode = 1)
    /\ ~Terminated => exitCode = NotExited /\ e = "none"
    /\ e \notin {"UnicodeDecodeError", "EmptyDataError"}
    /\ (attempts # <<>> /\ attempts[Len(attempts)].res \in UnhandledRead)
        => e = attempts[Len(attempts)].res
    /\ (argc >= 2 /\ Glob(dir) = 0 /\ Terminated) => exitCode = 0

C4_Witness ==
    /\ pc = "exited"
    /\ e = "TypeError"
    /\ exitCode = 1
    /\ Sectioned = {2}
    /\ inputs[1].skipped

\* C5: when discovery returns no *.csv file (empty directory, missing path,
\* path that is no directory) the writer is never opened, no file is read,
\* nothing is written, and the run returns with exit code 0 right after the
\* warning.
C5_NoFilesNoOutput ==
    (argc >= 2 /\ Glob(dir) = 0 /\ pc # "main")
        => /\ writer = "none"
           /\ attempts = <<>>
           /\ inputs = <<>>
           /\ cur = NoFile
           /\ writes = <<>>
           /\ printed = <<"warning">>
           /\ pc = "returned"
           /\ exitCode = 0

C5_Witness ==
    /\ dir.kind = "notdir"
    /\ pc = "returned"
    /\ printed = <<"warning">>

\* the iteration of file idx - 1 ran to its end
IterationOver == idx = Len(inputs) + 1 /\ pc \in {"read", "returned", "exited"}

\* C6: the first read of a file asks for UTF-8; a second read happens exactly
\* when the first raised UnicodeDecodeError, and it asks for Latin-1; a
\* decoding error never reaches the handler of line 102; a table that only
\* Latin-1 decodes is read by the retry, and once its iteration is over its
\* section is complete and the cursor is its label row plus its row count
\* plus 3.
C6_Latin1Fallback ==
    /\ attempts # <<>> => attempts[1].enc = "utf-8"
    /\ Len(attempts) <= 2
    /\ Len(attempts) = 2
        => attempts[1].res = "UnicodeDecodeError" /\ attempts[2].enc = "latin-1"
    /\ (attempts # <<>> /\ attempts[1].res = "UnicodeDecodeError")
        => IF pc = "retry"
           THEN Len(attempts) = 1 /\ exitCode = NotExited
           ELSE Len(attempts) = 2
    /\ e # "UnicodeDecodeError"
    /\ (cur.struct = "table" /\ ~cur.utf8 /\ pc # "retry")
        => /\ Len(attempts) = 2
           /\ attempts[2].res = "df"
           /\ df = [ncols |-> cur.ncols, nrows |-> cur.nrows]
           /\ Len(inputs) >= idx /\ ~inputs[idx].skipped =>
                Rows(idx) = cur.nrows
    /\ (cur.struct = "table" /\ ~cur.utf8 /\ IterationOver /\ idx > 1
            /\ ~inputs[idx - 1].skipped)
        => /\ Labelled(idx - 1)
           /\ SectionAt(idx - 1, LabelRow(idx - 1), cur.nrows)
           /\ startrow = LabelRow(idx - 1) + cur.nrows + 3

C6_Witness ==
    /\ cur.struct = "table"
    /\ ~cur.utf8
    /\ cur.nrows = 2
    /\ IterationOver
    /\ idx = 3
    /\ startrow = 10
    /\ KindOf(2, "separator") # {}

\* C9: a read failure that is neither a decoding error on the first read nor
\* an empty-data error (first read or Latin-1 retry) ends the run at once:
\* no cell of that file and of no later file is written, the file's
\* iteration and every later one never happen, the last message is the
\* top-level error message, the exit code is 1 and no step follows.
C9_ReadFailureAborts ==
    (attempts # <<>> /\ attempts[Len(attempts)].res \notin
            {"df", "EmptyDataError"}
        /\ ~(Len(attempts) = 1 /\ attempts[1].res = "UnicodeDecodeError"))
        => /\ pc = "exited"
           /\ exitCode = 1
           /\ e = attempts[Len(attempts)].res
           /\ printed[Len(printed)] = "error"
           /\ \A i \in DOMAIN writes : writes[i].file < idx
           /\ Len(inputs) = idx - 1
           /\ ~ENABLED Next

C9_Witness ==
    /\ Len(attempts) = 2
    /\ attempts[2].res = "ParserError"
    /\ idx = 2
    /\ writes # <<>>
    /\ pc = "exited"

\* what a step appends to writes
NewWrites == SubSeq(writes', Len(writes) + 1, Len(writes'))

RowFromCursor(w) ==
    CASE w.kind = "label" -> startrow
      [] w.kind = "header" -> startrow + 1
      [] w.kind = "data" -> startrow + 1 + w.rec
      [] w.kind = "separator" -> startrow + 2 + df.nrows

\* C7: the cursor is 0 when the loop starts; no step lowers it; the step that
\* completes a section raises it by at least 3 and no other step changes it
\* once the loop runs; every cell a step writes lies at the row the cursor,
\* and the table of the file being written, determine.
C7_CursorMonotone ==
    /\ [](pc = "read" /\ idx = 1 => startrow = 0)
    /\ [][/\ startrow' >= startrow
          /\ Len(writes') >= Len(writes)
          /\ SubSeq(writes', 1, Len(writes)) = writes
          /\ (idx \in NonSkipped /\ idx' = idx + 1) => startrow' >= startrow + 3
          /\ (pc # "open" /\ startrow' # startrow)
                => pc = "rows" /\ pc' = "read" /\ idx' = idx + 1
          /\ \A i \in DOMAIN NewWrites :
                NewWrites[i].row = RowFromCursor(NewWrites[i])]_vars

C7_Witness ==
    /\ startrow = 9
    /\ idx = 4
    /\ Rows(1) = 3
    /\ Rows(2) = 0
    /\ inputs[3].skipped

\* C8: the iteration that skips an empty file (the read raises
\* EmptyDataError) leaves the cursor and every written cell as they were,
\* writes nothing, and hands the loop to the next file of the list: nothing
\* is closed or exited.
C8_SkipFrame ==
    [][(pc = "read" /\ idx <= all_csv_files /\ cur'.struct = "empty")
        => /\ startrow' = startrow
           /\ writes' = writes
           /\ idx' = idx + 1
           /\ pc' = "read"
           /\ writer' = writer
           /\ exitCode' = exitCode
           /\ e' = e
           /\ df' = df]_vars

C8_Witness ==
    /\ pc = "label"
    /\ idx = 3
    /\ inputs[2].skipped
    /\ writes # <<>>
    /\ startrow = 4

====
